---- MODULE Spec2Model ----
(***************************************************************************)
(* A model of cpap.py: the analysis of CPAP pressure logs.                 *)
(*                                                                         *)
(* Every function of the core is an operator computed the way the Python   *)
(* computes it, and one action per function applies it to inputs drawn     *)
(* from bounded sets.  Python floats are binary floating-point numbers     *)
(* rounded to nearest, ties to even; the model keeps that arithmetic and   *)
(* shortens the significand from 53 bits to MantissaBits bits.  The        *)
(* exponent is unbounded: overflow, underflow, infinities and NaN are      *)
(* outside the model (the log reader rejects NaN, and the values of a      *)
(* pressure log are of moderate size).                                     *)
(***************************************************************************)
EXTENDS Integers, Sequences, FiniteSets

VARIABLES op, rows, time, flow, breath_times, ret, log

vars == <<op, rows, time, flow, breath_times, ret, log>>

----------------------------------------------------------------------------
(* Bounds of the model.                                                    *)

\* Bits of a float's significand (53 for a Python float).
MantissaBits == 4
\* Longest flow series handed to get_breaths.
MaxFlowLen == 5
\* Longest list of breath times handed to count_apneas.
MaxBreathTimes == 3
\* Longest (time, flow) series handed to calc_leakage.
MaxLeakLen == 3
\* Longest (time, flow) series handed to analyze_flow.
MaxSamples == 5
\* Most sensor rows handed to get_flow_vs_time.
MaxRows == 2

----------------------------------------------------------------------------
(* Floating point, as functions (their arguments are values): a float is  *)
(* <<m, e>>, the number m * 2^e, with m = 0 and e = 0, or                  *)
(* 2^(MantissaBits-1) <= |m| < 2^MantissaBits.  The                        *)
(* representation is unique, so = on floats is == on Python floats         *)
(* (the model has one zero; Python's -0.0 == 0.0).                         *)

Pow2[n \in Int] == IF n <= 0 THEN 1 ELSE 2 * Pow2[n - 1]

Abs[x \in Int] == IF x < 0 THEN -x ELSE x

Sign[x \in Int] == IF x < 0 THEN -1 ELSE IF x > 0 THEN 1 ELSE 0

Float == Int \X Int

Zero == <<0, 0>>

\* The significands of non-zero floats are Hidden..(2 * Hidden - 1).
Hidden == Pow2[MantissaBits - 1]

\* a/d scaled by powers of two into [2^(MantissaBits-1), 2^MantissaBits):
\* <<a', d', e'>> with (a'/d') * 2^e' = (a/d) * 2^e.
Scale[a \in Int, d \in Int, e \in Int] ==
    IF a < d * Hidden THEN Scale[2 * a, d, e - 1]
    ELSE IF a >= 2 * d * Hidden THEN Scale[a, 2 * d, e + 1]
    ELSE <<a, d, e>>

\* q + r/d (0 <= r < d) rounded to an integer, ties to even.
RoundQuotient[q \in Int, r \in Int, d \in Int] ==
    IF 2 * r > d \/ (2 * r = d /\ q % 2 = 1) THEN q + 1 ELSE q

\* The float sg * m * 2^e for 2^(MantissaBits-1) <= m <= 2^MantissaBits.
Normal[sg \in Int, m \in Int, e \in Int] ==
    IF m = 2 * Hidden THEN <<sg * Hidden, e + 1>>
    ELSE <<sg * m, e>>

RoundScaled[sg \in Int, s \in Int \X Int \X Int] ==
    Normal[sg, RoundQuotient[s[1] \div s[2], s[1] % s[2], s[2]], s[3]]

\* The float nearest to the rational (n/d) * 2^e (d > 0), ties to even.
RoundRat[n \in Int, d \in Int, e \in Int] ==
    IF n = 0 THEN Zero ELSE RoundScaled[Sign[n], Scale[Abs[n], d, e]]

\* float(n) of an integer, and the float a decimal literal n/d denotes.
FromInt[n \in Int] == RoundRat[n, 1, 0]
FromRat[n \in Int, d \in Int] == RoundRat[n, d, 0]

\* hi + lo for floats with hi's exponent the larger: exact when the
\* exponents are close, and hi when lo is below a quarter of its last place.
AddAligned[hi \in Float, lo \in Float] ==
    IF hi[2] - lo[2] > MantissaBits + 1 THEN hi
    ELSE RoundRat[hi[1] * Pow2[hi[2] - lo[2]] + lo[1], 1, lo[2]]

fadd[x \in Float, y \in Float] ==
    IF x[1] = 0 THEN y
    ELSE IF y[1] = 0 THEN x
    ELSE IF x[2] >= y[2] THEN AddAligned[x, y]
    ELSE AddAligned[y, x]

fneg[x \in Float] == <<-x[1], x[2]>>

fsub[x \in Float, y \in Float] == fadd[x, fneg[y]]

fmul[x \in Float, y \in Float] == RoundRat[x[1] * y[1], 1, x[2] + y[2]]

\* x / y for y # 0.
fdiv[x \in Float, y \in Float] ==
    RoundRat[Sign[y[1]] * x[1], Abs[y[1]], x[2] - y[2]]

\* Comparisons: equal exponents compare by significand, and otherwise the
\* sign and the exponent decide.
flt[x \in Float, y \in Float] ==
    IF x[1] = 0 \/ y[1] = 0 \/ Sign[x[1]] # Sign[y[1]] THEN x[1] < y[1]
    ELSE IF x[2] = y[2] THEN x[1] < y[1]
    ELSE IF x[1] > 0 THEN x[2] < y[2]
    ELSE x[2] > y[2]

fle[x \in Float, y \in Float] == x = y \/ flt[x, y]

\* floor(sqrt(n)) by bisection: lo^2 <= n < hi^2.
ISqrt[n \in Int, lo \in Int, hi \in Int] ==
    IF hi - lo <= 1 THEN lo
    ELSE IF ((lo + hi) \div 2) * ((lo + hi) \div 2) <= n
         THEN ISqrt[n, (lo + hi) \div 2, hi]
         ELSE ISqrt[n, lo, (lo + hi) \div 2]

\* The float nearest to sqrt(n) * 2^e, for s = floor(sqrt(n)) of more than
\* MantissaBits + 1 bits: the bit below s records whether s^2 < n.
RoundRoot[n \in Int, s \in Int, e \in Int] ==
    RoundRat[2 * s + (IF s * s = n THEN 0 ELSE 1), 2, e]

\* sqrt(m * 2^e) for m > 0 and k with e - k even: the significand is
\* widened by k bits.
SqrtWidened[m \in Int, e \in Int, k \in Int] ==
    RoundRoot[m * Pow2[k], ISqrt[m * Pow2[k], 0, Pow2[(3 * MantissaBits + 4) \div 2]],
              (e - k) \div 2]

\* sqrt(x) for x >= 0, correctly rounded.
fsqrt[x \in Float] ==
    IF x[1] = 0 THEN Zero
    ELSE SqrtWidened[x[1], x[2], 2 * MantissaBits + 2 + (x[2] % 2)]

----------------------------------------------------------------------------
(* Python values.  A loop of the code is a recursive function of the loop  *)
(* index and the variables the loop updates.                               *)

FloatSeq == Seq(Float)
IntSeq == Seq(Int)

\* x[i] of a Python list, indices from 0.
At(x, i) == x[i + 1]

\* What a call ends in: a returned value or a raised exception.
Return(v) == [kind |-> "return", value |-> v, exc |-> ""]
Raise(e) == [kind |-> "raise", value |-> <<>>, exc |-> e]
NoCall == [kind |-> "none", value |-> <<>>, exc |-> ""]

----------------------------------------------------------------------------
(* Globals and literals of cpap.py.                                        *)

ro == FromRat[1199, 1000]
d1 == FromRat[15, 1000]
d2 == FromRat[12, 1000]
\* math.pi: 355/113 rounds to the same float up to 22 bits.
pi == FromRat[355, 113]

\* find_peaks(flow, height=0.1)
height == FromRat[1, 10]

\* breath_times[i+1] - breath_times[i] > 10
ApneaGap == 10

\* (breaths/duration) * 60
SecondsPerMinute == 60

\* ((25.4) / (14745 - 1638)) * (v - 1638), then * 98.0665
AdcSpan == FromRat[254, 10]
AdcMax == 14745
AdcMin == 1638
PaPerCmH2O == FromRat[980665, 10000]

----------------------------------------------------------------------------
(* calc_flow.  A1, A2 and denom do not depend on the pressures.            *)

A1 == fmul[pi, fmul[fdiv[d1, FromInt[2]], fdiv[d1, FromInt[2]]]]
A2 == fmul[pi, fmul[fdiv[d2, FromInt[2]], fdiv[d2, FromInt[2]]]]

denom == fmul[ro, fsub[fmul[fdiv[A1, A2], fdiv[A1, A2]], FromInt[1]]]

\* The literals 2, 1000 * A1 and -1 of lines 81, 83 and 117, as floats.
Two == FromInt[2]
QScale == fmul[FromInt[1000], A1]
MinusOne == FromInt[-1]

numer(p1, p2) == fmul[Two, fsub[p1, p2]]

\* Q = 1000 * A1 * math.sqrt(x) for x = numer/denom; math.sqrt raises
\* ValueError below zero.
Q[x \in Float] ==
    IF flt[x, Zero] THEN Raise("ValueError")
    ELSE Return(fmul[QScale, fsqrt[x]])

\* calc_flow clamped to 0 where the square root has no value.
calc_flow_clamped(p1, p2) ==
    IF denom = Zero THEN Raise("ZeroDivisionError")
    ELSE IF flt[p1, p2] THEN Return(Zero)
    ELSE Q[fdiv[numer(p1, p2), denom]]

calc_flow(p1, p2) ==
    IF denom = Zero THEN Raise("ZeroDivisionError")
    ELSE Q[fdiv[numer(p1, p2), denom]]

----------------------------------------------------------------------------
(* convert_ADC_to_pressure.                                                *)

\* (25.4) / (14745 - 1638), and 1638 as the float the subtraction takes.
AdcScale == fdiv[AdcSpan, FromInt[AdcMax - AdcMin]]
AdcOffset == FromInt[AdcMin]

pressure_pa[v \in Float] ==
    fmul[fmul[AdcScale, fsub[v, AdcOffset]], PaPerCmH2O]

ConvertLoop[vals \in FloatSeq, k \in Int, pressures \in FloatSeq] ==
    IF k > Len(vals) THEN pressures
    ELSE ConvertLoop[vals, k + 1, Append(pressures, pressure_pa[vals[k]])]

convert_ADC_to_pressure(vals) == ConvertLoop[vals, 1, <<>>]

----------------------------------------------------------------------------
(* get_flow_vs_time.  A row is <<t, venturi, inspiratory, expiratory>>,    *)
(* each field a decimal literal <<n, d>> that float() parses.              *)

Literal == Int \X Int
Row == Literal \X Literal \X Literal \X Literal

float[lit \in Literal] == FromRat[lit[1], lit[2]]

\* -1 * calc_flow(...): an exception of calc_flow propagates.
Negated(c) == IF c.kind = "raise" THEN c ELSE Return(fmul[MinusOne, c.value])

\* The branch on the pressures <<p2, p1_ins, p1_exp>> of one row: the flow
\* appended, or the exception of calc_flow.
Branch[p \in FloatSeq] ==
    IF fle[p[3], p[2]] THEN calc_flow(p[2], p[1])
    ELSE Negated(calc_flow(p[3], p[1]))

\* The branch with > for the >= of line 114: equal pressures count as
\* expiration.
BranchOnGreater[p \in FloatSeq] ==
    IF flt[p[3], p[2]] THEN calc_flow(p[2], p[1])
    ELSE Negated(calc_flow(p[3], p[1]))

RowFlow_expiration_on_tie(line) ==
    BranchOnGreater[convert_ADC_to_pressure(<<float[line[2]], float[line[3]],
                                              float[line[4]]>>)]

RowFlow(line) ==
    Branch[convert_ADC_to_pressure(<<float[line[2]], float[line[3]],
                                     float[line[4]]>>)]

FlowVsTimeLoop[pressure_data \in Seq(Row), k \in Int, t \in FloatSeq, f \in FloatSeq] ==
    IF k > Len(pressure_data) THEN Return([time |-> t, flow |-> f])
    ELSE LET r == RowFlow(pressure_data[k])
         IN  IF r.kind = "raise" THEN r
             ELSE FlowVsTimeLoop[pressure_data, k + 1,
                                 Append(t, float[pressure_data[k][1]]),
                                 Append(f, r.value)]

get_flow_vs_time(pressure_data) == FlowVsTimeLoop[pressure_data, 1, <<>>, <<>>]

----------------------------------------------------------------------------
(* find_peaks(x, height=h) of scipy.signal, as get_breaths calls it: the   *)
(* local maxima of x (a sample or a flat run of equal samples, strictly    *)
(* above both neighbours, never the first or the last sample; a flat run   *)
(* is reported at its middle, rounded down) whose value is >= h.           *)

PlateauEnd[x \in FloatSeq, i \in Int, i_ahead \in Int] ==
    IF i_ahead < Len(x) - 1 /\ At(x, i_ahead) = At(x, i)
    THEN PlateauEnd[x, i, i_ahead + 1]
    ELSE i_ahead

LocalMaxima[x \in FloatSeq, i \in Int, midpoints \in IntSeq] ==
    IF i >= Len(x) - 1 THEN midpoints
    ELSE IF /\ flt[At(x, i - 1), At(x, i)]
            /\ flt[At(x, PlateauEnd[x, i, i + 1]), At(x, i)]
         THEN LocalMaxima[x, PlateauEnd[x, i, i + 1] + 1,
                          Append(midpoints,
                                 (i + (PlateauEnd[x, i, i + 1] - 1)) \div 2)]
         ELSE LocalMaxima[x, i + 1, midpoints]

find_peaks(x, h) ==
    SelectSeq(LocalMaxima[x, 1, <<>>], LAMBDA p : fle[h, At(x, p)])

----------------------------------------------------------------------------
(* get_breaths.                                                            *)

\* for j in range(j, stop): if flow[j] <= 0: append and break.
\* TRUE when the loop appended.
ScanReturn[f \in FloatSeq, j \in Int, stop \in Int] ==
    IF j >= stop THEN FALSE
    ELSE IF fle[At(f, j), Zero] THEN TRUE
    ELSE ScanReturn[f, j + 1, stop]

\* for i in range(i, len(peak_indices) - 1)
PeakLoop[f \in FloatSeq, peak_indices \in IntSeq, i \in Int, breath_indices \in IntSeq] ==
    IF i >= Len(peak_indices) - 1 THEN breath_indices
    ELSE PeakLoop[f, peak_indices, i + 1,
                  IF ScanReturn[f, At(peak_indices, i), At(peak_indices, i + 1)]
                  THEN Append(breath_indices, At(peak_indices, i))
                  ELSE breath_indices]

\* The check after the last peak, on the list the loop over the other
\* peaks built.
LastPeak[f \in FloatSeq, last \in Int, breath_indices \in IntSeq] ==
    IF ScanReturn[f, last, Len(f)] THEN Append(breath_indices, last)
    ELSE breath_indices

Breaths[f \in FloatSeq, peak_indices \in IntSeq] ==
    IF Len(peak_indices) > 0
    THEN LastPeak[f, At(peak_indices, Len(peak_indices) - 1),
                  PeakLoop[f, peak_indices, 0, <<>>]]
    ELSE <<>>

\* get_breaths without lines 178-181: the last peak is never checked.
get_breaths_without_last_check(f) ==
    IF Len(find_peaks(f, height)) > 0
    THEN PeakLoop[f, find_peaks(f, height), 0, <<>>]
    ELSE <<>>

\* get_breaths with the last peak appended without the scan of line 179.
get_breaths_last_unchecked(f) ==
    IF Len(find_peaks(f, height)) > 0
    THEN Append(PeakLoop[f, find_peaks(f, height), 0, <<>>],
                At(find_peaks(f, height), Len(find_peaks(f, height)) - 1))
    ELSE <<>>

\* get_breaths without the break of line 181: the last peak is appended
\* once for every sample <= 0 from it on.
get_breaths_without_break(f) ==
    IF Len(find_peaks(f, height)) > 0
    THEN PeakLoop[f, find_peaks(f, height), 0, <<>>] \o
         [k \in 1..Cardinality(
               {j \in At(find_peaks(f, height),
                         Len(find_peaks(f, height)) - 1)..(Len(f) - 1) :
                   fle[At(f, j), Zero]})
            |-> At(find_peaks(f, height), Len(find_peaks(f, height)) - 1)]
    ELSE <<>>

get_breaths(f) == Breaths[f, find_peaks(f, height)]

----------------------------------------------------------------------------
(* count_apneas.                                                           *)

ApneaLoop[bt \in FloatSeq, i \in Int, apnea_count \in Int] ==
    IF i >= Len(bt) - 1 THEN apnea_count
    ELSE ApneaLoop[bt, i + 1,
                   IF flt[FromInt[ApneaGap], fsub[At(bt, i + 1), At(bt, i)]]
                   THEN apnea_count + 1
                   ELSE apnea_count]

\* count_apneas with >= for the > of line 203.
count_apneas_from_gap(bt) ==
    Cardinality({i \in 0..(Len(bt) - 2) :
                    fle[FromInt[ApneaGap], fsub[At(bt, i + 1), At(bt, i)]]})

count_apneas(bt) == ApneaLoop[bt, 0, 0]

----------------------------------------------------------------------------
(* calc_leakage: the value returned and the warnings logged.               *)

LeakageLoop[t \in FloatSeq, f \in FloatSeq, i \in Int, leakage \in Float] ==
    IF i >= Len(t) - 1 THEN leakage
    ELSE LeakageLoop[t, f, i + 1,
                     fadd[leakage, fmul[fsub[At(f, i + 1), At(f, i)],
                                        fsub[At(t, i + 1), At(t, i)]]]]

\* if (leakage < 0): logging.warning(...); return leakage
Warned[leakage \in Float] ==
    [leakage |-> leakage,
     warnings |-> IF flt[leakage, Zero] THEN <<"Leakage is negative">>
                  ELSE <<>>]

\* calc_leakage returning 0 for a negative sum, after the warning.
calc_leakage_clamped(t, f) ==
    [leakage |-> IF flt[LeakageLoop[t, f, 0, Zero], Zero] THEN Zero
                 ELSE LeakageLoop[t, f, 0, Zero],
     warnings |-> Warned[LeakageLoop[t, f, 0, Zero]].warnings]

\* calc_leakage as the trapezoidal integral: the mean of the two flows for
\* their difference in line 228.
TrapezoidLoop[t \in FloatSeq, f \in FloatSeq, i \in Int, leakage \in Float] ==
    IF i >= Len(t) - 1 THEN leakage
    ELSE TrapezoidLoop[t, f, i + 1,
                       fadd[leakage,
                            fmul[fdiv[fadd[At(f, i + 1), At(f, i)], FromInt[2]],
                                 fsub[At(t, i + 1), At(t, i)]]]]

calc_leakage_trapezoid(t, f) == Warned[TrapezoidLoop[t, f, 0, Zero]]

calc_leakage(t, f) == Warned[LeakageLoop[t, f, 0, Zero]]

----------------------------------------------------------------------------
(* analyze_flow: what the call ends in, and the warnings logged.           *)

\* [time[i] for i in breath_indices]
BreathTimes[t \in FloatSeq, breath_indices \in IntSeq] ==
    [k \in 1..Len(breath_indices) |-> At(t, breath_indices[k])]

\* The lines after breath_times is built: int / float raises
\* ZeroDivisionError before calc_leakage is reached.
Metrics[t \in FloatSeq, f \in FloatSeq, duration \in Float, breaths \in Int, bt \in FloatSeq, apnea_count \in Int] ==
    IF duration = Zero
    THEN [ret |-> Raise("ZeroDivisionError"), warnings |-> <<>>]
    ELSE [ret |-> Return([duration |-> duration,
                          breaths |-> breaths,
                          breath_rate_bpm |->
                              fmul[fdiv[FromInt[breaths], duration],
                                   FromInt[SecondsPerMinute]],
                          breath_times |-> bt,
                          apnea_count |-> apnea_count,
                          leakage |-> calc_leakage(t, f).leakage]),
          warnings |-> calc_leakage(t, f).warnings]

Analysis[t \in FloatSeq, f \in FloatSeq, breath_indices \in IntSeq] ==
    Metrics[t, f, fsub[At(t, Len(t) - 1), At(t, 0)], Len(breath_indices),
            BreathTimes[t, breath_indices],
            count_apneas(BreathTimes[t, breath_indices])]

\* analyze_flow with the indices of the breaths for their times in line 261.
analyze_flow_breath_indices(t, f) ==
    IF Len(t) = 0 THEN [ret |-> Raise("IndexError"), warnings |-> <<>>]
    ELSE Metrics[t, f, fsub[At(t, Len(t) - 1), At(t, 0)],
                 Len(get_breaths(f)),
                 [k \in 1..Len(get_breaths(f)) |-> FromInt[get_breaths(f)[k]]],
                 count_apneas([k \in 1..Len(get_breaths(f)) |->
                                  FromInt[get_breaths(f)[k]]])]

\* analyze_flow with a rate of 0 for a series of zero duration, for the
\* division of line 263.
analyze_flow_zero_rate(t, f) ==
    IF Len(t) = 0 THEN [ret |-> Raise("IndexError"), warnings |-> <<>>]
    ELSE IF At(t, Len(t) - 1) = At(t, 0)
    THEN [ret |-> Return([duration |-> Zero,
                          breaths |-> Len(get_breaths(f)),
                          breath_rate_bpm |-> Zero,
                          breath_times |-> BreathTimes[t, get_breaths(f)],
                          apnea_count |->
                              count_apneas(BreathTimes[t, get_breaths(f)]),
                          leakage |-> calc_leakage(t, f).leakage]),
          warnings |-> calc_leakage(t, f).warnings]
    ELSE Analysis[t, f, get_breaths(f)]

\* time[-1] of an empty list raises IndexError.
analyze_flow(t, f) ==
    IF Len(t) = 0 THEN [ret |-> Raise("IndexError"), warnings |-> <<>>]
    ELSE Analysis[t, f, get_breaths(f)]

----------------------------------------------------------------------------
(* The inputs the calls are made with.                                     *)

SeqsUpTo(S, n) == UNION {[1..k -> S] : k \in 0..n}

NonDecreasing(t) == \A k \in 1..(Len(t) - 1) : fle[t[k], t[k + 1]]

\* Flow samples of get_breaths: negative, zero, positive below the peak
\* height, the peak height itself, and above it.
BreathFlowVals ==
    {FromInt[-1], Zero, FromRat[1, 20], FromRat[1, 10], FromInt[1]}

BreathFlows == SeqsUpTo(BreathFlowVals, MaxFlowLen)

\* Breath times of count_apneas, in any order (the function sorts nothing):
\* gaps below 10, of exactly 10 and above 10 occur.
ApneaTimeVals ==
    {Zero, FromRat[15, 10], FromInt[2], FromInt[10], FromInt[12], FromInt[24]}

ApneaTimes == SeqsUpTo(ApneaTimeVals, MaxBreathTimes)

\* Series of calc_leakage: timestamps in non-decreasing order, and flows
\* whose differences are not all exact.
LeakTimeVals == {Zero, FromInt[1], FromInt[2], FromInt[3]}
LeakFlowVals ==
    {FromRat[-2, 10], Zero, FromRat[1, 10], FromInt[1], FromInt[2]}

LeakSeries ==
    UNION {{t \in [1..k -> LeakTimeVals] : NonDecreasing(t)}
               \X [1..k -> LeakFlowVals] : k \in 0..MaxLeakLen}

\* Series of analyze_flow: len(time) = len(flow), timestamps in
\* non-decreasing order, an empty series and series of zero duration
\* included.
SampleTimeVals == {Zero, FromInt[2], FromInt[12], FromInt[24]}
SampleFlowVals == {FromInt[-1], Zero, FromInt[1]}

SampleSeries ==
    UNION {{t \in [1..k -> SampleTimeVals] : NonDecreasing(t)}
               \X [1..k -> SampleFlowVals] : k \in 0..MaxSamples}

\* Rows of the pressure log, as the reader hands them over: decimal
\* literals for the timestamp and the three ADC codes.  The branch codes
\* lie below, between and above the venturi codes, so that flows in both
\* directions, equal branch pressures, flows of zero and a branch pressure
\* below the venturi pressure all occur.
RowTimeLits == {<<0, 1>>, <<5, 10>>}
VenturiLits == {<<1638, 1>>, <<3072, 1>>}
InspiratoryLits == {<<1024, 1>>, <<2048, 1>>, <<3072, 1>>}
ExpiratoryLits == {<<1024, 1>>, <<2048, 1>>}

PressureRows ==
    SeqsUpTo(RowTimeLits \X VenturiLits \X InspiratoryLits \X ExpiratoryLits,
             MaxRows)

----------------------------------------------------------------------------
(* The state machine: one call of one function of the core.                *)

Init ==
    /\ op = "idle"
    /\ rows = <<>>
    /\ time = <<>>
    /\ flow = <<>>
    /\ breath_times = <<>>
    /\ ret = NoCall
    /\ log = <<>>

Call_get_breaths ==
    /\ op = "idle"
    /\ \E f \in BreathFlows :
        /\ flow' = f
        /\ ret' = Return(get_breaths(f))
    /\ op' = "get_breaths"
    /\ UNCHANGED <<rows, time, breath_times, log>>

Call_count_apneas ==
    /\ op = "idle"
    /\ \E bt \in ApneaTimes :
        /\ breath_times' = bt
        /\ ret' = Return(count_apneas(bt))
    /\ op' = "count_apneas"
    /\ UNCHANGED <<rows, time, flow, log>>

Call_calc_leakage ==
    /\ op = "idle"
    /\ \E s \in LeakSeries :
        /\ time' = s[1]
        /\ flow' = s[2]
        /\ ret' = Return(calc_leakage(s[1], s[2]).leakage)
        /\ log' = log \o calc_leakage(s[1], s[2]).warnings
    /\ op' = "calc_leakage"
    /\ UNCHANGED <<rows, breath_times>>

Call_analyze_flow ==
    /\ op = "idle"
    /\ \E s \in SampleSeries :
        /\ time' = s[1]
        /\ flow' = s[2]
        /\ ret' = analyze_flow(s[1], s[2]).ret
        /\ log' = log \o analyze_flow(s[1], s[2]).warnings
    /\ op' = "analyze_flow"
    /\ UNCHANGED <<rows, breath_times>>

Call_get_flow_vs_time ==
    /\ op = "idle"
    /\ \E r \in PressureRows :
        /\ rows' = r
        /\ ret' = get_flow_vs_time(r)
    /\ op' = "get_flow_vs_time"
    /\ UNCHANGED <<time, flow, breath_times, log>>

Next ==
    \/ Call_get_breaths
    \/ Call_count_apneas
    \/ Call_calc_leakage
    \/ Call_analyze_flow
    \/ Call_get_flow_vs_time

Spec == Init /\ [][Next]_vars

\* One specification per function, for the claims about that function.
SpecBreaths == Init /\ [][Call_get_breaths]_vars
SpecApneas == Init /\ [][Call_count_apneas]_vars
SpecLeakage == Init /\ [][Call_calc_leakage]_vars
SpecAnalyze == Init /\ [][Call_analyze_flow]_vars
SpecFlow == Init /\ [][Call_get_flow_vs_time]_vars
----------------------------------------------------------------------------
(* The claims about get_breaths, stated without the loops of the code.    *)

\* The samples the peak detector reports, as a set of indices from 0: p is
\* the middle (rounded down) of a run l..r of equal samples that does not
\* touch either end of the series, is strictly above the samples on both
\* sides, and reaches the height threshold.
DetectedPeaks(x) ==
    {p \in 0..(Len(x) - 1) :
        \E l \in 1..p : \E r \in p..(Len(x) - 2) :
            /\ p = (l + r) \div 2
            /\ \A k \in l..r : At(x, k) = At(x, l)
            /\ flt[At(x, l - 1), At(x, l)]
            /\ flt[At(x, r + 1), At(x, r)]
            /\ fle[height, At(x, p)]}

SetMax(S) == CHOOSE m \in S : \A n \in S : n <= m
SetMin(S) == CHOOSE m \in S : \A n \in S : m <= n

IsFinalPeak(x, p) == \A q \in DetectedPeaks(x) : q <= p

NextPeak(x, p) == SetMin({q \in DetectedPeaks(x) : q > p})

\* A detected peak is confirmed when a sample strictly between it and the
\* next detected peak is <= 0; the final peak, when a sample from it to the
\* end of the series is.
ConfirmedPeaks(x) ==
    {p \in DetectedPeaks(x) :
        IF IsFinalPeak(x, p)
        THEN \E j \in p..(Len(x) - 1) : fle[At(x, j), Zero]
        ELSE \E j \in (p + 1)..(NextPeak(x, p) - 1) : fle[At(x, j), Zero]}

Returned == {ret.value[k] : k \in 1..Len(ret.value)}

\* C1: get_breaths returns exactly the detected peaks (local maxima with
\* height >= 0.1) that are confirmed: a non-final peak by a sample <= 0
\* strictly between it and the next peak, the final peak by a sample <= 0
\* from it to the end of the series; each of them once.
C1_ConfirmedPeaksReturned ==
    op = "get_breaths" =>
        /\ ret.kind = "return"
        /\ Returned = ConfirmedPeaks(flow)
        /\ Len(ret.value) = Cardinality(ConfirmedPeaks(flow))

\* A call with a peak that is dropped (no return to zero before the next
\* peak) and a peak that is confirmed.
C1_Witness ==
    /\ op = "get_breaths"
    /\ Cardinality(DetectedPeaks(flow)) >= 2
    /\ \E p \in DetectedPeaks(flow) : p \notin Returned
    /\ SetMax(DetectedPeaks(flow)) \in Returned

\* C2 as the specification states it: when the series ends with a value
\* > 0, the final detected peak is not confirmed.
C2_EndsPositiveFinalPeakDropped ==
    (/\ op = "get_breaths"
     /\ DetectedPeaks(flow) # {}
     /\ flt[Zero, At(flow, Len(flow) - 1)])
        => SetMax(DetectedPeaks(flow)) \notin Returned

\* C2, amended: when every sample from the final detected peak to the end
\* of the series is > 0 (the flow never returns to zero or below after the
\* final peak), the final peak is not in the result.
C2_NoReturnFinalPeakDropped ==
    (/\ op = "get_breaths"
     /\ DetectedPeaks(flow) # {}
     /\ \A j \in SetMax(DetectedPeaks(flow))..(Len(flow) - 1) :
            flt[Zero, At(flow, j)])
        => SetMax(DetectedPeaks(flow)) \notin Returned

\* A series that stays above zero after its final peak, with an earlier
\* breath counted.
C2_Witness ==
    /\ op = "get_breaths"
    /\ Cardinality(DetectedPeaks(flow)) >= 2
    /\ \A j \in SetMax(DetectedPeaks(flow))..(Len(flow) - 1) :
           flt[Zero, At(flow, j)]
    /\ Len(ret.value) >= 1

\* C3: the list get_breaths returns is strictly increasing, and each of its
\* elements is an index of flow: 0 <= i < len(flow).
C3_IncreasingValidIndices ==
    op = "get_breaths" =>
        /\ \A k \in 1..Len(ret.value) :
               ret.value[k] \in 0..(Len(flow) - 1)
        /\ \A k \in 1..(Len(ret.value) - 1) :
               ret.value[k] < ret.value[k + 1]

\* A call that returns two breaths.
C3_Witness ==
    /\ op = "get_breaths"
    /\ Len(ret.value) >= 2

----------------------------------------------------------------------------
(* The claim about count_apneas.                                           *)

\* breath_times[i+1] - breath_times[i], as the code computes it.
Gap(bt, i) == fsub[At(bt, i + 1), At(bt, i)]

\* C4: count_apneas returns the number of positions i with
\* breath_times[i+1] - breath_times[i] strictly greater than 10; a gap of
\* exactly 10 is not counted, and a list of length 0 or 1 gives 0.
C4_CountsGapsAboveTen ==
    op = "count_apneas" =>
        /\ ret.kind = "return"
        /\ ret.value =
               Cardinality({i \in 0..(Len(breath_times) - 2) :
                               flt[FromInt[ApneaGap], Gap(breath_times, i)]})
        /\ ret.value <=
               Cardinality({i \in 0..(Len(breath_times) - 2) :
                               Gap(breath_times, i) # FromInt[ApneaGap]})
        /\ Len(breath_times) <= 1 => ret.value = 0

\* A call with a gap of exactly 10, which is not counted, and a longer gap,
\* which is.
C4_Witness ==
    /\ op = "count_apneas"
    /\ \E i \in 0..(Len(breath_times) - 2) :
           Gap(breath_times, i) = FromInt[ApneaGap]
    /\ ret.value = 1

----------------------------------------------------------------------------
(* The claims about calc_leakage.                                          *)

\* (flow[i+1] - flow[i]) * (time[i+1] - time[i])
Term(t, f, i) ==
    fmul[fsub[At(f, i + 1), At(f, i)], fsub[At(t, i + 1), At(t, i)]]

\* The sum of the first n terms, added in the order of the pairs.
SumOfTerms[t \in FloatSeq, f \in FloatSeq, n \in Int] ==
    IF n <= 0 THEN Zero
    ELSE fadd[SumOfTerms[t, f, n - 1], Term(t, f, n - 1)]

\* C5: calc_leakage logs the negative-leakage warning if and only if the
\* sum of (flow[i+1]-flow[i])*(time[i+1]-time[i]) over the consecutive
\* pairs is < 0, and it returns that sum unmodified in either case.
C5_WarnsIffNegativeReturnsSum ==
    op = "calc_leakage" =>
        /\ ret.kind = "return"
        /\ ret.value = SumOfTerms[time, flow, Len(time) - 1]
        /\ log = IF flt[SumOfTerms[time, flow, Len(time) - 1], Zero]
                 THEN <<"Leakage is negative">>
                 ELSE <<>>

\* A call whose sum is negative: the warning is logged and the negative
\* value returned.
C5_Witness ==
    /\ op = "calc_leakage"
    /\ flt[ret.value, Zero]
    /\ log = <<"Leakage is negative">>

\* time[i+1] - time[i] == dt for every i, for dt the first difference.
Step(t) == fsub[At(t, 1), At(t, 0)]
Uniform(t) ==
    \A i \in 0..(Len(t) - 2) : fsub[At(t, i + 1), At(t, i)] = Step(t)

\* C10 as the specification states it: for uniformly spaced samples the
\* leakage returned equals dt * (flow[last] - flow[first]), so it is 0 when
\* the first and the last flow sample are equal; it is 0 for a series of
\* length 0 or 1.
C10_UniformSumTelescopes ==
    op = "calc_leakage" =>
        /\ Len(time) <= 1 => ret.value = Zero
        /\ (Len(time) >= 2 /\ Uniform(time)) =>
               ret.value =
                   fmul[Step(time),
                        fsub[At(flow, Len(flow) - 1), At(flow, 0)]]

\* Numbers m * 2^e that are not rounded: <<m, e>> with m any integer.
MinOf(a, b) == IF a <= b THEN a ELSE b
Aligned(x, e) == x[1] * Pow2[x[2] - e]
ExactSum(x, y) ==
    <<Aligned(x, MinOf(x[2], y[2])) + Aligned(y, MinOf(x[2], y[2])),
      MinOf(x[2], y[2])>>
ExactDifference(x, y) == ExactSum(x, <<-y[1], y[2]>>)
ExactProduct(x, y) == <<x[1] * y[1], x[2] + y[2]>>
SameNumber(x, y) == ExactDifference(x, y)[1] = 0

\* No operation of the loop rounds: every difference, every product and
\* every partial sum the code computes is the exact one.
NoRounding(t, f) ==
    \A i \in 0..(Len(t) - 2) :
        /\ SameNumber(fsub[At(f, i + 1), At(f, i)],
                      ExactDifference(At(f, i + 1), At(f, i)))
        /\ SameNumber(fsub[At(t, i + 1), At(t, i)],
                      ExactDifference(At(t, i + 1), At(t, i)))
        /\ SameNumber(Term(t, f, i),
                      ExactProduct(fsub[At(f, i + 1), At(f, i)],
                                   fsub[At(t, i + 1), At(t, i)]))
        /\ SameNumber(SumOfTerms[t, f, i + 1],
                      ExactSum(SumOfTerms[t, f, i], Term(t, f, i)))

\* C10, amended: for uniformly spaced samples, when no difference, product
\* or partial sum of the loop is rounded (as for samples with integer
\* values of moderate size), the leakage returned is exactly
\* dt * (flow[last] - flow[first]), whatever the interior samples; and it
\* is 0 for a series of length 0 or 1.
C10_ExactSumTelescopes ==
    op = "calc_leakage" =>
        /\ Len(time) <= 1 => ret.value = Zero
        /\ (Len(time) >= 2 /\ Uniform(time) /\ NoRounding(time, flow)) =>
               SameNumber(ret.value,
                          ExactProduct(Step(time),
                                       ExactDifference(
                                           At(flow, Len(flow) - 1),
                                           At(flow, 0))))

\* A uniformly spaced series of three or more samples without rounding,
\* with an interior sample that differs from both ends and a leakage
\* that is not 0.
C10_Witness ==
    /\ op = "calc_leakage"
    /\ Len(time) >= 3
    /\ Uniform(time)
    /\ NoRounding(time, flow)
    /\ At(flow, 1) # At(flow, 0)
    /\ At(flow, 1) # At(flow, Len(flow) - 1)
    /\ ret.value # Zero

----------------------------------------------------------------------------
(* The claims about analyze_flow.                                          *)

\* time[last] - time[first]
Duration(t) == fsub[At(t, Len(t) - 1), At(t, 0)]

MetricsFields ==
    {"duration", "breaths", "breath_rate_bpm", "breath_times", "apnea_count",
     "leakage"}

\* C6: for time and flow of equal length and a duration that is not zero,
\* the record analyze_flow returns has duration = time[last] - time[first],
\* breaths = len(breath_times), breath_times[k] = time[get_breaths(flow)[k]]
\* for every k (so breath_times is ordered when time is non-decreasing),
\* apnea_count = count_apneas(breath_times) and
\* breath_rate_bpm = (breaths / duration) * 60.
C6_RecordRelations ==
    (/\ op = "analyze_flow"
     /\ Len(time) = Len(flow)
     /\ Len(time) > 0
     /\ Duration(time) # Zero)
        => /\ ret.kind = "return"
           /\ ret.value.duration = Duration(time)
           /\ ret.value.breaths = Len(ret.value.breath_times)
           /\ Len(ret.value.breath_times) = Len(get_breaths(flow))
           /\ \A k \in 1..Len(ret.value.breath_times) :
                  ret.value.breath_times[k] = At(time, get_breaths(flow)[k])
           /\ NonDecreasing(time) => NonDecreasing(ret.value.breath_times)
           /\ ret.value.apnea_count = count_apneas(ret.value.breath_times)
           /\ ret.value.breath_rate_bpm =
                  fmul[fdiv[FromInt[ret.value.breaths], ret.value.duration],
                       FromInt[SecondsPerMinute]]

\* A record with two or more breaths and an apnea between them.
C6_Witness ==
    /\ op = "analyze_flow"
    /\ ret.kind = "return"
    /\ ret.value.breaths >= 2
    /\ ret.value.apnea_count >= 1

\* C7: for a series of zero duration (time[last] = time[first])
\* analyze_flow raises ZeroDivisionError and returns no record; and every
\* call either returns a record with all six fields or raises.
C7_ZeroDurationFaults ==
    op = "analyze_flow" =>
        /\ (Len(time) > 0 /\ At(time, Len(time) - 1) = At(time, 0)) =>
               ret = Raise("ZeroDivisionError")
        /\ \/ ret.kind = "return" /\ DOMAIN ret.value = MetricsFields
           \/ ret.kind = "raise" /\ ret.value = <<>> /\ ret.exc # ""

\* A series of several samples, all at one timestamp, with a breath in it:
\* the call raises.
C7_Witness ==
    /\ op = "analyze_flow"
    /\ Len(time) >= 3
    /\ At(time, Len(time) - 1) = At(time, 0)
    /\ Len(get_breaths(flow)) >= 1
    /\ ret.kind = "raise"

----------------------------------------------------------------------------
(* The claims about get_flow_vs_time and calc_flow.                        *)

\* The pressures <<reference, inspiratory, expiratory>> of a row.
Pressures(line) ==
    convert_ADC_to_pressure(<<float[line[2]], float[line[3]], float[line[4]]>>)
Reference(p) == p[1]
Inspiratory(p) == p[2]
Expiratory(p) == p[3]

\* The larger of the inspiratory and the expiratory pressure.
Selected(p) ==
    IF fle[Expiratory(p), Inspiratory(p)] THEN Inspiratory(p)
    ELSE Expiratory(p)

\* C8: when no fault occurs, get_flow_vs_time returns time and flow with
\* one element per row, time[i] the timestamp of row i; flow[i] is
\* calc_flow(inspiratory, reference), which is >= 0, when inspiratory >=
\* expiratory (equality included), and -calc_flow(expiratory, reference),
\* which is <= 0, otherwise.
C8_SeriesAlignedAndSigned ==
    (op = "get_flow_vs_time" /\ ret.kind = "return") =>
        /\ Len(ret.value.time) = Len(rows)
        /\ Len(ret.value.flow) = Len(rows)
        /\ \A i \in 1..Len(rows) : \A p \in {Pressures(rows[i])} :
               /\ ret.value.time[i] = float[rows[i][1]]
               /\ IF fle[Expiratory(p), Inspiratory(p)]
                  THEN /\ Return(ret.value.flow[i]) =
                              calc_flow(Inspiratory(p), Reference(p))
                       /\ fle[Zero, ret.value.flow[i]]
                  ELSE /\ Return(fneg[ret.value.flow[i]]) =
                              calc_flow(Expiratory(p), Reference(p))
                       /\ fle[ret.value.flow[i], Zero]

\* Two rows with different timestamps: one with equal inspiratory and
\* expiratory pressures and a flow > 0, one in expiration with a flow < 0.
C8_Witness ==
    /\ op = "get_flow_vs_time"
    /\ ret.kind = "return"
    /\ Len(rows) = 2
    /\ rows[1][1] # rows[2][1]
    /\ \E i \in 1..2 :
           /\ Expiratory(Pressures(rows[i])) = Inspiratory(Pressures(rows[i]))
           /\ flt[Zero, ret.value.flow[i]]
    /\ \E i \in 1..2 : flt[ret.value.flow[i], Zero]

\* C9: calc_flow(p1, p2) with p1 < p2 raises (it returns no value, 0
\* included); and get_flow_vs_time raises the same error and returns no
\* series when, for some row, the larger of the inspiratory and the
\* expiratory pressure is below the reference pressure, whatever the rows
\* before it.
C9_NegativeRootFaults ==
    op = "get_flow_vs_time" =>
        \A i \in 1..Len(rows) : \A p \in {Pressures(rows[i])} :
            /\ \A j \in 1..3 : \A k \in 1..3 :
                   flt[p[j], p[k]] => calc_flow(p[j], p[k]) = Raise("ValueError")
            /\ flt[Selected(p), Reference(p)] => ret = Raise("ValueError")

\* A row without a fault followed by a row whose pressures are both below
\* the reference: the call raises.
C9_Witness ==
    /\ op = "get_flow_vs_time"
    /\ Len(rows) = 2
    /\ fle[Reference(Pressures(rows[1])), Selected(Pressures(rows[1]))]
    /\ flt[Selected(Pressures(rows[2])), Reference(Pressures(rows[2]))]
    /\ ret.kind = "raise"

====
